---- MODULE Spec2Model ----
(***************************************************************************)
(* A model of the layered key-and-lock map generator (src/src/pos.rs,      *)
(* src/src/node.rs, src/src/node_map.rs).                                  *)
(*                                                                         *)
(* Rust's Option<T> is modelled as a set with at most one element:         *)
(* None is {} and Some(x) is {x}.  A Pos is the pair <<row, col>>, a Line  *)
(* the pair <<pos, pos>>.  The linked list of GeneratorStates             *)
(* (prev_state) is the sequence `state`, root first, current last.         *)
(* Every random draw of the code is a nondeterministic choice.             *)
(***************************************************************************)
EXTENDS Integers, Sequences, FiniteSets, TLC

\* ------------------------------------------------------------ bounds
\* Init draws every grid of at most MaxCells cells, with every start room,
\* and every layer count up to MaxLayers.
MaxCells == 6
MaxLayers == 3

\* --------------------------------------------------- program constants
DIRECTIONS == << <<-1, 0>>, <<1, 0>>, <<0, -1>>, <<0, 1>> >>
RETRIES == 10
\* rng.gen_range(4, 8): low inclusive, high exclusive
AmountLow == 4
AmountHigh == 8
\* COLORS has nine entries; color(index) is COLORS[index]
PaletteSize == 9

VARIABLES
    width,          \* generate's parameter, NodeMap.width
    height,         \* generate's parameter, NodeMap.height
    layers,         \* generate's parameter
    state,          \* the chain of GeneratorStates, root first, current last
    retries_left,   \* generate's local
    result,         \* "none" while generate runs, then "Ok", "Err" or "panic"
    panic_line      \* the line of node_map.rs whose unwrap() aborted, else 0

vars == <<width, height, layers, state, retries_left, result, panic_line>>

\* ------------------------------------------------------------ Option
None == {}
Some(x) == {x}
unwrap(o) == CHOOSE x \in o : TRUE

\* ------------------------------------------------------------ pos.rs
PosAdd(p, q) == <<p[1] + q[1], p[2] + q[2]>>

in_range(self, row1, row2, col1, col2) ==
    IF self[1] >= row1 /\ self[1] <= row2 /\ self[2] >= col1 /\ self[2] <= col2
    THEN Some(self)
    ELSE None

Line(a, b) == <<a, b>>

\* Line::eq comparing the endpoints in order only
LineEqOrdered(self, other) ==
    self[1] = other[1] /\ self[2] = other[2]

LineEq(self, other) ==
    \/ self[1] = other[1] /\ self[2] = other[2]
    \/ self[1] = other[2] /\ self[2] = other[1]

Connection(line, st) == [line |-> line, state |-> st]

\* ------------------------------------------------------------ node.rs
\* The Node the generator uses: a layer and an optional key (node_map.rs
\* reads and writes node.key as an Option<u8>).
Node(layer, key) == [layer |-> layer, key |-> key]
NodeDefault == Node(0, None)
with_layer(layer) == Node(layer, None)

\* ------------------------------------------------------------ sequences
Skip(s, n) == SubSeq(s, n + 1, Len(s))
Contains(s, x) == \E i \in 1..Len(s) : s[i] = x
Range(s) == {s[i] : i \in 1..Len(s)}

RECURSIVE Flatten(_)
Flatten(ss) == IF ss = <<>> THEN <<>> ELSE Head(ss) \o Flatten(Tail(ss))

\* ------------------------------------------------------------ NodeMap
\* nodes is the Vec<Option<Node>>; index i of the Vec is element i + 1.
with_size(w, h) ==
    [nodes |-> [i \in 1..(w * h) |-> None], connections |-> <<>>]

\* (row * width + col) as usize: a negative index becomes a huge usize, for
\* which Vec::get returns None, as it does for an index past the end.
get_node(self, pos) ==
    LET idx == pos[1] * width + pos[2]
    IN  IF idx >= 0 /\ idx < Len(self.nodes) THEN self.nodes[idx + 1] ELSE None

set_node(self, pos, node) ==
    [self EXCEPT !.nodes[pos[1] * width + pos[2] + 1] = Some(node)]

\* iter().find(...): the first connection of the Vec on that line
find(connections, conn, i) ==
    LET hits == {j \in i..Len(connections) : LineEq(conn, connections[j].line)}
    IN  IF hits = {} THEN None
        ELSE Some(connections[CHOOSE j \in hits : \A k \in hits : j <= k])

\* get_connection that returns the last connection on the line
get_connection_last(self, conn) ==
    LET hits == {j \in 1..Len(self.connections) :
                    LineEq(conn, self.connections[j].line)}
    IN  IF hits = {} THEN None
        ELSE Some(self.connections[CHOOSE j \in hits : \A k \in hits : j >= k])

get_connection(self, conn) == find(self.connections, conn, 1)

add_connection(self, conn) ==
    [self EXCEPT !.connections = Append(@, conn)]

\* add_connection for each connection of conns, in order
add_connections(self, conns) ==
    [self EXCEPT !.connections = @ \o conns]

\* ------------------------------------------------------------ GeneratorState
Cur == state[Len(state)]
HasPrev == Len(state) > 1

\* available_spaces_with_skip without its filter on occupied positions
available_spaces_with_skip_occupied(self, skip) ==
    UNION {UNION {in_range(PosAdd(pos, DIRECTIONS[d]),
                           0, height - 1, 0, width - 1) : d \in 1..4}
           : pos \in Range(Skip(self.pos_list, skip))}

available_spaces_with_skip(self, skip) ==
    LET near == UNION {UNION {in_range(PosAdd(pos, DIRECTIONS[d]),
                                       0, height - 1, 0, width - 1) : d \in 1..4}
                       : pos \in Range(Skip(self.pos_list, skip))}
    IN  {pos \in near : ~Contains(self.pos_list, pos)}

\* available_spaces that skips nothing: every placed room is frontier
available_spaces_no_skip(self, prev) ==
    available_spaces_with_skip(self, 0)

\* prev is self.prev_state
available_spaces(self, prev) ==
    available_spaces_with_skip(self, Len(prev.pos_list) - prev.amount)

\* generate_node after a successful draw of random_space
generate_node(self, random_space) ==
    [self EXCEPT !.pos_list = Append(@, random_space),
                 !.node_map = set_node(@, random_space, with_layer(self.layer))]

\* The runs of the loop `for _ in 0..amount { generate_node(rng)?; }`, each
\* as the sequence of its draws of random_space: a run of `count` draws
\* placed every room, a shorter one ended in Err("No available spaces!").
RECURSIVE generate_node_runs(_, _, _)
generate_node_runs(self, prev, count) ==
    LET spaces == available_spaces(self, prev)
    IN  IF count = 0 \/ spaces = {} THEN {<<>>}
        ELSE UNION {{<<space>> \o rest :
                        rest \in generate_node_runs(generate_node(self, space), prev, count - 1)}
                    : space \in spaces}

\* self after generate_node has placed the draws, in order.
RECURSIVE generate_nodes(_, _)
generate_nodes(self, draws) ==
    IF draws = <<>> THEN self
    ELSE generate_nodes(generate_node(self, Head(draws)), Tail(draws))

\* The four neighbours of pos, in the order of DIRECTIONS.
Neighbours(pos) == [d \in 1..4 |-> PosAdd(pos, DIRECTIONS[d])]

\* One pass of a `for pos ... for conn in ...` loop whose candidates do not
\* depend on the connections added so far.
ConnsTo(pos_iter, targets, st) ==
    Flatten([k \in 1..Len(pos_iter) |->
        LET others == SelectSeq(Neighbours(pos_iter[k]),
                                LAMBDA q : Contains(targets, q))
        IN  [i \in 1..Len(others) |->
                Connection(Line(others[i], pos_iter[k]), st)]])

\* The third loop: each pos collects its candidates against the map as it
\* is when the pos is reached, then adds them.
RECURSIVE ShortcutLoop(_, _, _)
ShortcutLoop(node_map, pos_iter, pos_list) ==
    IF pos_iter = <<>> THEN node_map
    ELSE LET pos == Head(pos_iter)
             others == SelectSeq(Neighbours(pos),
                          LAMBDA q : /\ Contains(pos_list, q)
                                     /\ get_connection(node_map, Line(q, pos)) = None)
             conns == [i \in 1..Len(others) |->
                          Connection(Line(others[i], pos), "Shortcut")]
         IN  IF conns = <<>>
             THEN ShortcutLoop(node_map, Tail(pos_iter), pos_list)
             ELSE ShortcutLoop(add_connections(node_map, conns),
                               Tail(pos_iter), pos_list)

\* prev is self.prev_state; prev_has_prev is prev.prev_state.is_some().
\* The HashSets of the second and third loop hold one pos's connections,
\* all on different edges; their iteration order is not observable through
\* get_connection, and the order of DIRECTIONS is used.
generate_connections(self, prev, prev_has_prev) ==
    LET st == IF prev_has_prev THEN "Locked" ELSE "Open"
        prev_pos_list == Skip(prev.pos_list, Len(prev.pos_list) - prev.amount)
        pos_iter == Skip(self.pos_list, prev.amount)
        curr_pos_list == Skip(self.pos_list, Len(prev.pos_list))
        map1 == add_connections(self.node_map, ConnsTo(pos_iter, prev_pos_list, st))
        map2 == add_connections(map1, ConnsTo(pos_iter, curr_pos_list, "Open"))
        map3 == ShortcutLoop(map2, pos_iter, self.pos_list)
    IN  [self EXCEPT !.node_map = map3]

\* set_node(pos, Node { key: Some(layer), ..*get_node(pos).unwrap() })
put_key(node_map, pos, layer) ==
    set_node(node_map, pos, Node(unwrap(get_node(node_map, pos)).layer, Some(layer)))

RECURSIVE put_keys(_, _, _)
put_keys(node_map, poss, layer) ==
    IF poss = {} THEN node_map
    ELSE LET pos == CHOOSE p \in poss : TRUE
         IN  put_keys(put_key(node_map, pos, layer), poss \ {pos}, layer)

\* key_amount of generate_next_state: self is the parent, next_state the child
key_amount(self, next_state) ==
    Cardinality({pr \in (1..Len(next_state.pos_list)) \X (1..Len(self.pos_list)) :
        /\ pr[1] > Len(self.pos_list)
        /\ pr[2] > Len(self.pos_list) - self.amount
        /\ get_connection(next_state.node_map,
                          Line(next_state.pos_list[pr[1]], self.pos_list[pr[2]])) # None})

\* key_candidates without its filter on rooms that hold a key
key_candidates_keyed(self) ==
    {self.pos_list[i] : i \in 2..Len(self.pos_list)}

\* key_candidates without skip(1): the start room is eligible
key_candidates_with_start(self) ==
    {self.pos_list[i] : i \in {j \in 1..Len(self.pos_list) :
        unwrap(get_node(self.node_map, self.pos_list[j])).key = None}}

\* The rooms the key filter of generate_next_state lets through.
key_candidates(self) ==
    {self.pos_list[i] : i \in {j \in 2..Len(self.pos_list) :
        unwrap(get_node(self.node_map, self.pos_list[j])).key = None}}

\* choose_multiple that draws one element too few
choose_multiple_short(S, amount) ==
    IF Cardinality(S) <= amount - 1 THEN {S}
    ELSE {T \in SUBSET S : Cardinality(T) = amount - 1}

\* choose_multiple(rng, amount): `amount` distinct elements, or all of them
\* when there are fewer.
choose_multiple(S, amount) ==
    IF Cardinality(S) <= amount THEN {S}
    ELSE {T \in SUBSET S : Cardinality(T) = amount}

AmountRange == AmountLow..(AmountHigh - 1)

\* next_state of generate_next_state before its for loop
next_state_start(self, amount) ==
    [self EXCEPT !.layer = @ + 1, !.amount = amount]

\* next_state after the for loop and generate_connections
next_state_wired(self, self_has_prev, amount, draws) ==
    generate_connections(generate_nodes(next_state_start(self, amount), draws),
                         self, self_has_prev)

\* key_draws that draws the key-holders from next_state's rooms, the new
\* ones included
key_draws_from_next(self, self_has_prev, wired) ==
    IF ~self_has_prev THEN {{}}
    ELSE choose_multiple(key_candidates(wired), key_amount(self, wired))

\* The key-holders generate_next_state may draw: nothing is drawn on the
\* first advance (self.prev_state.is_none() returns early).
key_draws(self, self_has_prev, wired) ==
    IF ~self_has_prev THEN {{}}
    ELSE choose_multiple(key_candidates(self), key_amount(self, wired))

\* The Ok(next_state) of self.generate_next_state(rng) for the given draws.
generate_next_state(self, self_has_prev, amount, draws, chosen) ==
    LET wired == next_state_wired(self, self_has_prev, amount, draws)
    IN  [wired EXCEPT !.node_map = put_keys(@, chosen, wired.layer)]

\* Whether self.generate_next_state(rng) can return Err.
generate_next_state_fails(self) ==
    \E amount \in AmountRange :
        \E draws \in generate_node_runs(next_state_start(self, amount), self, amount) :
            Len(draws) < amount

\* The outcomes of self.generate_final_state(rng): [panic |-> 0, final |-> s]
\* for Ok(s), and [panic |-> n, final |-> self] when the unwrap() of line n
\* of node_map.rs finds None.
generate_final_state(self) ==
    LET final_state == [self EXCEPT !.layer = @ + 1]
        spaces == available_spaces_with_skip(final_state, 0)
        key_poss == {pos \in Range(Skip(self.pos_list, Len(self.pos_list) - self.amount)) :
                        unwrap(get_node(self.node_map, pos)).key = None}
    IN  IF spaces = {} THEN {[panic |-> 367, final |-> self]}
        ELSE UNION {
            LET placed == [final_state EXCEPT
                              !.pos_list = Append(@, end_pos),
                              !.node_map = set_node(@, end_pos, with_layer(final_state.layer))]
                others == {q \in Range(Neighbours(end_pos)) :
                              get_node(placed.node_map, q) # None}
            IN  IF others = {} THEN {[panic |-> 382, final |-> self]}
                ELSE UNION {
                    LET joined == [placed EXCEPT !.node_map =
                            add_connection(@, Connection(Line(end_pos, other), "Locked"))]
                    IN  IF key_poss = {} THEN {[panic |-> 394, final |-> self]}
                        ELSE {[panic |-> 0,
                               final |-> [joined EXCEPT !.node_map =
                                            put_key(@, key_pos, joined.layer)]]
                              : key_pos \in key_poss}
                    : other \in others}
            : end_pos \in spaces}

\* ------------------------------------------------------------ generate
Grids == {g \in (1..MaxCells) \X (1..MaxCells) : g[1] * g[2] <= MaxCells}

AllCells(w, h) == (0..(h - 1)) \X (0..(w - 1))

\* The state generate is in when it enters its loop, for a start room
\* drawn from `starts`.
InitWith(w, h, l, starts) ==
    /\ width = w
    /\ height = h
    /\ layers = l
    /\ \E initial_pos \in AllCells(w, h) \cap starts :
          state = << [node_map |-> set_node(with_size(w, h), initial_pos, NodeDefault),
                      pos_list |-> <<initial_pos>>,
                      amount |-> 1,
                      layer |-> 0] >>
    /\ retries_left = RETRIES
    /\ result = "none"
    /\ panic_line = 0

\* Larger runs, <<width, height, layers>>, explored from the start room
\* ScenarioStart only: one-row grids that hold two and three layers and a
\* terminal room, and a square grid that two layers fill.
Scenarios == {<<10, 1, 2>>, <<14, 1, 3>>, <<3, 3, 2>>}
ScenarioStart == <<0, 0>>

\* generate on every grid of Grids, for every layer count and start room
InitSmall ==
    \E g \in Grids, l \in 0..MaxLayers :
        InitWith(g[1], g[2], l, AllCells(g[1], g[2]))

Init ==
    \/ InitSmall
    \/ \E c \in Scenarios : InitWith(c[1], c[2], c[3], {ScenarioStart})

\* generate(5, 2, 2) from the corner start room: two layers and a terminal
\* room fit, and a second-layer room can touch three first-layer rooms.
InitKeys == InitWith(5, 2, 2, {ScenarioStart})

\* generate(5, 5, 1) from the corner start room.
Init55 == InitWith(5, 5, 1, {ScenarioStart})

\* Whether the loop `for _ in 0..amount { generate_node(rng)?; }` can make
\* the draws, in order: each is one of the available spaces when drawn
\* (available_spaces reads the placement list only).
RECURSIVE can_draw(_, _, _)
can_draw(self, prev, draws) ==
    \/ draws = <<>>
    \/ /\ Head(draws) \in available_spaces(self, prev)
       /\ can_draw([self EXCEPT !.pos_list = Append(@, Head(draws))],
                   prev, Tail(draws))

\* The chain of snapshots after the advances of `seeds`, each advance given
\* as the outcome [amount, draws, chosen] of its random draws; the empty
\* sequence when a seed is not an outcome generate_next_state can draw.
RECURSIVE seeded(_, _)
seeded(chain, seeds) ==
    IF seeds = <<>> THEN chain
    ELSE LET self == chain[Len(chain)]
             self_has_prev == Len(chain) > 1
             seed == Head(seeds)
         IN  IF /\ seed.amount \in AmountRange
                /\ Len(seed.draws) = seed.amount
                /\ can_draw(next_state_start(self, seed.amount), self, seed.draws)
                /\ seed.chosen \in key_draws(self, self_has_prev,
                        next_state_wired(self, self_has_prev, seed.amount, seed.draws))
             THEN seeded(Append(chain, generate_next_state(self, self_has_prev,
                                    seed.amount, seed.draws, seed.chosen)),
                         Tail(seeds))
             ELSE <<>>

\* generate(w, h, l) with the start room initial_pos, at the point of its
\* loop where the advances so far have drawn `seeds` and none has failed.
InitSeeded(w, h, l, initial_pos, seeds) ==
    /\ width = w
    /\ height = h
    /\ layers = l
    /\ \E initial_state \in {[node_map |-> set_node(with_size(w, h), initial_pos, NodeDefault),
                               pos_list |-> <<initial_pos>>,
                               amount |-> 1,
                               layer |-> 0]} :
          \E chain \in {seeded(<<initial_state>>, seeds)} :
              chain # <<>> /\ state = chain
    /\ retries_left = RETRIES
    /\ result = "none"
    /\ panic_line = 0

\* generate(10, 2, 3) from the corner start room after a first advance
\* that fills the cells (0,1)..(0,7) of the upper row and a second one
\* that turns into the lower row at the far end: the free cells
\* (1,7)..(1,0) lie under first-layer rooms and are reached, one after
\* the other, from the second-layer room (1,8).
SeedAround ==
    << [amount |-> 7,
        draws |-> << <<0, 1>>, <<0, 2>>, <<0, 3>>, <<0, 4>>, <<0, 5>>, <<0, 6>>, <<0, 7>> >>,
        chosen |-> {}],
       [amount |-> 4,
        draws |-> << <<0, 8>>, <<0, 9>>, <<1, 9>>, <<1, 8>> >>,
        chosen |-> {<<0, 1>>}] >>
InitAround == InitSeeded(10, 2, 3, ScenarioStart, SeedAround)

\* generate(37, 1, 8) from the corner start room after seven advances of
\* four rooms each; the key of each layer from the second on is put on
\* the next room of the row.  Eight cells are free for the eighth layer
\* and the terminal room, so the eighth advance finds room for any amount.
RowDraws(k) ==
    << <<0, 4 * k - 3>>, <<0, 4 * k - 2>>, <<0, 4 * k - 1>>, <<0, 4 * k>> >>
SeedPalette ==
    << [amount |-> 4, draws |-> RowDraws(1), chosen |-> {}],
       [amount |-> 4, draws |-> RowDraws(2), chosen |-> {<<0, 1>>}],
       [amount |-> 4, draws |-> RowDraws(3), chosen |-> {<<0, 2>>}],
       [amount |-> 4, draws |-> RowDraws(4), chosen |-> {<<0, 3>>}],
       [amount |-> 4, draws |-> RowDraws(5), chosen |-> {<<0, 4>>}],
       [amount |-> 4, draws |-> RowDraws(6), chosen |-> {<<0, 5>>}],
       [amount |-> 4, draws |-> RowDraws(7), chosen |-> {<<0, 6>>}] >>
InitPalette == InitSeeded(37, 1, 8, ScenarioStart, SeedPalette)

InLoop == result = "none" /\ Cur.layer < layers /\ retries_left >= 0

\* Ok(next_state) => state = next_state
AdvanceOk ==
    /\ InLoop
    /\ \E amount \in AmountRange :
        \E draws \in {r \in generate_node_runs(next_state_start(Cur, amount), Cur, amount) :
                          Len(r) = amount} :
          \E chosen \in key_draws(Cur, HasPrev,
                                  next_state_wired(Cur, HasPrev, amount, draws)) :
             state' = Append(state, generate_next_state(Cur, HasPrev, amount, draws, chosen))
    /\ UNCHANGED <<width, height, layers, retries_left, result, panic_line>>

\* AdvanceErr with a generate_next_state that worked on the parent in
\* place: the snapshot rolled back to keeps the map of the failed one.
AdvanceErrInPlace ==
    /\ InLoop
    /\ generate_next_state_fails(Cur) = TRUE
    /\ retries_left' = retries_left - 1
    /\ IF HasPrev
       THEN /\ state' = [SubSeq(state, 1, Len(state) - 1) EXCEPT
                            ![Len(state) - 1].node_map = Cur.node_map]
            /\ UNCHANGED <<result, panic_line>>
       ELSE /\ result' = "panic"
            /\ panic_line' = 243
            /\ UNCHANGED state
    /\ UNCHANGED <<width, height, layers>>

\* _ => { retries_left -= 1; state = *state.prev_state.unwrap(); }
AdvanceErr ==
    /\ InLoop
    /\ generate_next_state_fails(Cur) = TRUE
    /\ retries_left' = retries_left - 1
    /\ IF HasPrev
       THEN /\ state' = SubSeq(state, 1, Len(state) - 1)
            /\ UNCHANGED <<result, panic_line>>
       ELSE /\ result' = "panic"
            /\ panic_line' = 243
            /\ UNCHANGED state
    /\ UNCHANGED <<width, height, layers>>

\* if retries_left < 0 { return Err(...) }
RetriesExhausted ==
    /\ result = "none"
    /\ retries_left < 0
    /\ result' = "Err"
    /\ UNCHANGED <<width, height, layers, state, retries_left, panic_line>>

\* state = state.generate_final_state(&mut rng).unwrap(); Ok(state.node_map)
Finalize ==
    /\ result = "none"
    /\ ~(Cur.layer < layers)
    /\ retries_left >= 0
    /\ \E out \in generate_final_state(Cur) :
          IF out.panic = 0
          THEN /\ state' = Append(state, out.final)
               /\ result' = "Ok"
               /\ UNCHANGED panic_line
          ELSE /\ result' = "panic"
               /\ panic_line' = out.panic
               /\ UNCHANGED state
    /\ UNCHANGED <<width, height, layers, retries_left>>

Next == AdvanceOk \/ AdvanceErr \/ RetriesExhausted \/ Finalize

Spec == Init /\ [][Next]_vars

SpecKeys == InitKeys /\ [][Next]_vars

\* On a 5 x 5 grid with one layer the first advance always finds room for
\* its at most seven rooms, so generate_next_state never returns Err.
Next55 == AdvanceOk \/ Finalize

Spec55 == Init55 /\ [][Next55]_vars

\* The small grids, and the three-layer run of InitAround.
SpecEdges == (InitSmall \/ InitAround) /\ [][Next]_vars

\* The small grids, and the eight-layer run of InitPalette.
SpecPalette == (InitSmall \/ InitPalette) /\ [][Next]_vars

\* ------------------------------------------------------------ properties
\* Vocabulary of the properties: the grid read cell by cell, not through
\* get_node.
InGrid(pos) == pos[1] \in 0..(height - 1) /\ pos[2] \in 0..(width - 1)
RoomAt(s, pos) ==
    IF InGrid(pos) THEN s.node_map.nodes[pos[1] * width + pos[2] + 1] ELSE None
Rooms(s) == {pos \in AllCells(width, height) : RoomAt(s, pos) # None}
LayerOf(s, pos) == unwrap(RoomAt(s, pos)).layer
KeyOf(s, pos) == unwrap(RoomAt(s, pos)).key
RoomsOfLayer(s, L) == {pos \in Rooms(s) : LayerOf(s, pos) = L}
KeyHolders(s, K) == {pos \in Rooms(s) : KeyOf(s, pos) = Some(K)}
Abs(n) == IF n < 0 THEN -n ELSE n
Adjacent(p, q) == Abs(p[1] - q[1]) + Abs(p[2] - q[2]) = 1
Max(a, b) == IF a >= b THEN a ELSE b
Snapshots == Range(state)
Returned == result = "Ok"
Ended == result # "none"
\* the state get_connection returns for the edge, as an Option
LookedUp(s, p, q) ==
    {c.state : c \in get_connection(s.node_map, Line(p, q))}

\* Reach(s, L): the rooms of layer <= L that a path from the start room
\* reaches through Open or Locked connections between rooms of layer <= L;
\* a Locked connection between layers below K and layer K is passed only
\* when KeyHeld(s, K): a room of a layer m < K holds a key for K and is
\* itself in Reach(s, m).
RECURSIVE Reach(_, _), Grow(_, _, _), KeyHeld(_, _)
KeyHeld(s, K) ==
    \E h \in KeyHolders(s, K) : LayerOf(s, h) < K /\ h \in Reach(s, LayerOf(s, h))
Grow(s, L, R) ==
    LET more == {q \in Rooms(s) \ R :
                    /\ LayerOf(s, q) <= L
                    /\ \E p \in R :
                          \/ LookedUp(s, p, q) = {"Open"}
                          \/ /\ LookedUp(s, p, q) = {"Locked"}
                             /\ KeyHeld(s, Max(LayerOf(s, p), LayerOf(s, q)))}
    IN  IF more = {} THEN R ELSE Grow(s, L, R \cup more)
Reach(s, L) == Grow(s, L, {s.pos_list[1]})

\* C1: on a grid too small to hold the start room and `layers` layers of
\* at least AmountLow rooms, every run of generate that has ended returned
\* the retry-exhaustion error: none aborted.
C1_TooSmallGridReturnsErr ==
    (width * height < 1 + AmountLow * layers /\ Ended) => result = "Err"

\* C2: in every returned map both endpoints of every connection are cells
\* of the grid that hold a room, and they are four-directionally adjacent.
C2_ConnectionsResolve ==
    Returned =>
        \A i \in 1..Len(Cur.node_map.connections) :
            LET line == Cur.node_map.connections[i].line
            IN  /\ RoomAt(Cur, line[1]) # None
                /\ RoomAt(Cur, line[2]) # None
                /\ Adjacent(line[1], line[2])

\* C3: in every returned map every room of a layer L > 0, the terminal
\* room included, is reached from the start room through Open and keyed
\* Locked connections between rooms of layer <= L.
C3_LayerReachability ==
    Returned =>
        \A pos \in Rooms(Cur) :
            LayerOf(Cur, pos) > 0 => pos \in Reach(Cur, LayerOf(Cur, pos))

\* the Locked edges between a room of layer L and a room of layer L - 1,
\* each as the pair <<room of layer L, room of layer L - 1>>
LockedEdgesInto(s, L) ==
    {e \in RoomsOfLayer(s, L) \X RoomsOfLayer(s, L - 1) :
        Adjacent(e[1], e[2]) /\ LookedUp(s, e[1], e[2]) = {"Locked"}}

\* C4: in every returned map, for every regular layer L (1..layers, where
\* the previous layer is L - 1), as many rooms hold a key for L as there
\* are Locked edges between a room of layer L and a room of layer L - 1.
C4_KeyCountEqualsLockedEdges ==
    Returned =>
        \A L \in 1..layers :
            Cardinality(KeyHolders(Cur, L)) = Cardinality(LockedEdgesInto(Cur, L))

\* C5: in every snapshot of the chain, the returned one included, every
\* placed position is a cell of the grid, the placement list holds no
\* position twice, and a cell holds a room exactly when the list holds it.
C5_PlacementsValid ==
    \A s \in Snapshots :
        /\ \A i \in 1..Len(s.pos_list) : InGrid(s.pos_list[i])
        /\ \A i, j \in 1..Len(s.pos_list) : s.pos_list[i] = s.pos_list[j] => i = j
        /\ \A pos \in AllCells(width, height) :
              RoomAt(s, pos) # None <=> Contains(s.pos_list, pos)

\* C5 witness: a returned map with a start room, two layers and a
\* terminal room, after a rollback.
C5_Witness ==
    /\ Returned
    /\ retries_left < RETRIES
    /\ \A L \in 0..3 : RoomsOfLayer(Cur, L) # {}

\* the connections of snapshot s that have the room at pos as an endpoint
ConnectionsAt(s, pos) ==
    {i \in 1..Len(s.node_map.connections) :
        pos \in Range(s.node_map.connections[i].line)}

\* C6: every run of generate(5, 5, 1) that has ended returned a map with
\* one start room, 4 to 7 layer-1 rooms all reachable from it, one terminal
\* room of layer 2 with exactly one connection, Locked and to an adjacent
\* room, and exactly one key, for the terminal layer.
C6_FiveByFiveOneLayer ==
    (width = 5 /\ height = 5 /\ layers = 1 /\ Ended) =>
        /\ Returned
        /\ Cardinality(RoomsOfLayer(Cur, 0)) = 1
        /\ Cardinality(RoomsOfLayer(Cur, 1)) \in 4..7
        /\ RoomsOfLayer(Cur, 1) \subseteq Reach(Cur, 1)
        /\ Rooms(Cur) = RoomsOfLayer(Cur, 0) \cup RoomsOfLayer(Cur, 1)
                            \cup RoomsOfLayer(Cur, 2)
        /\ Cardinality(RoomsOfLayer(Cur, 2)) = 1
        /\ \A t \in RoomsOfLayer(Cur, 2) :
              /\ Cardinality(ConnectionsAt(Cur, t)) = 1
              /\ \A i \in ConnectionsAt(Cur, t) :
                    LET c == Cur.node_map.connections[i]
                    IN  /\ c.state = "Locked"
                        /\ \E o \in Rooms(Cur) :
                              Adjacent(t, o) /\ Range(c.line) = {t, o}
        /\ Cardinality({pos \in Rooms(Cur) : KeyOf(Cur, pos) # None}) = 1
        /\ Cardinality(KeyHolders(Cur, 2)) = 1

\* C7: in every snapshot no two connections of the collection are on the
\* same undirected edge.
C7_OneConnectionPerEdge ==
    \A s \in Snapshots :
        \A i, j \in 1..Len(s.node_map.connections) :
            LineEq(s.node_map.connections[i].line, s.node_map.connections[j].line)
                => i = j

\* C8: on every snapshot's map get_node returns nothing for every position
\* outside the grid, and a room only for a cell of the grid that holds it.
\* The positions tried are the grid and the ring of positions around it.
C8_GetNodeNothingOutsideGrid ==
    \A s \in Snapshots :
        \A pos \in (-1..height) \X (-1..width) :
            get_node(s.node_map, pos) = RoomAt(s, pos)

\* C9: a run for at least one layer in which finalize finds no terminal
\* position (the loop has ended within the retry budget and no free cell
\* is next to a room) ends by returning an error value, not by aborting.
C9_NoTerminalPositionReturnsErr ==
    (/\ Ended
     /\ layers >= 1
     /\ ~(Cur.layer < layers)
     /\ retries_left >= 0
     /\ available_spaces_with_skip([Cur EXCEPT !.layer = @ + 1], 0) = {})
        => result = "Err"

\* C10: a room that holds a key in a snapshot holds the same key in the
\* snapshot derived from it (so in every later one and in the returned
\* map): no step gives a key to a room that has one.
C10_KeysAreKept ==
    \A i \in 1..(Len(state) - 1) :
        \A pos \in Rooms(state[i]) :
            KeyOf(state[i], pos) # None =>
                RoomAt(state[i + 1], pos) = RoomAt(state[i], pos)

\* C10 witness: a returned three-layer map in which keys for the layers
\* 2, 3 and 4 (the terminal layer) are held, each drawn while earlier keys
\* were already placed.
C10_Witness ==
    /\ Returned
    /\ \A K \in 2..4 : KeyHolders(Cur, K) # {}

\* the cells of the grid and the ring of positions around it
Ring == (-1..height) \X (-1..width)

\* Line(A, B) equals Line(B, A), for all positions up to MaxCells from the
\* origin, and the positions of row and column -1
LineEqSymmetric ==
    \A A \in (-1..MaxCells) \X (-1..MaxCells) :
        \A B \in (-1..MaxCells) \X (-1..MaxCells) :
            LineEq(Line(A, B), Line(B, A))

\* C11: Line(A, B) equals Line(B, A) for all positions A, B, and on the
\* current snapshot's map (every snapshot is the current one when it is
\* made) get_connection returns the same, a connection or nothing, for
\* Line(A, B) and Line(B, A), for every position A of the grid or of the
\* ring around it and B any of A's four neighbours or A itself: the lines
\* the generator records and looks up.
C11_EdgeLookupSymmetric ==
    /\ LineEqSymmetric
    /\ \A A \in Ring : \A B \in Range(Neighbours(A)) \cup {A} :
          get_connection(Cur.node_map, Line(A, B))
              = get_connection(Cur.node_map, Line(B, A))

\* C11 witness: a snapshot whose map records the edge between two rooms
\* as Line(A, B) and finds it when asked for Line(B, A).
C11_Witness ==
    \E i \in 1..Len(Cur.node_map.connections) :
        LET c == Cur.node_map.connections[i]
        IN  /\ c.line[1] # c.line[2]
            /\ get_connection(Cur.node_map, Line(c.line[2], c.line[1])) = Some(c)

\* C12: the retry budget stays within -1..RETRIES, so a run has at most
\* RETRIES + 1 failed advances; a run that has ended returned the
\* retry-exhaustion error exactly when the budget is below zero; and when
\* the error is returned the current snapshot's layer is below the target
\* and no map (no finalized snapshot) was produced.
C12_RetryBudget ==
    /\ retries_left \in -1..RETRIES
    /\ Ended => (result = "Err" <=> retries_left < 0)
    /\ result = "Err" =>
          /\ Cur.layer < layers
          /\ \A s \in Snapshots : s.layer <= layers

\* what snapshot s holds beyond the generation pass of its own layer:
\* a room of a later layer, a key for a later layer, a connection with an
\* endpoint that is no room, or a room missing from the placement list
Leftovers(s) ==
    \/ \E pos \in Rooms(s) :
          \/ LayerOf(s, pos) > s.layer
          \/ \E K \in KeyOf(s, pos) : K > s.layer
          \/ ~Contains(s.pos_list, pos)
    \/ \E i \in 1..Len(s.node_map.connections) :
          \E e \in Range(s.node_map.connections[i].line) : RoomAt(s, e) = None
    \/ Len(s.pos_list) # Cardinality(Rooms(s))
    \/ s.amount # Cardinality(RoomsOfLayer(s, s.layer))

\* C13: a step that fails an advance from a snapshot of layer k >= 1 makes
\* the parent, exactly as the chain has held it since the layer-k snapshot
\* was derived, the current snapshot: its layer is k - 1, the chain below
\* it is as it was, and it holds nothing of layer k or later.
C13_RollbackRestoresParent ==
    [][(retries_left' < retries_left /\ HasPrev) =>
          /\ state' = SubSeq(state, 1, Len(state) - 1)
          /\ Cur' = state[Len(state) - 1]
          /\ Cur'.layer = Cur.layer - 1
          /\ ~Leftovers(Cur')]_vars

\* C13 witness: in a run for three layers an advance has failed and the
\* current snapshot is a first-layer one none of whose rooms holds a key.
C13_Witness ==
    /\ result = "none"
    /\ retries_left < RETRIES
    /\ Cur.layer = 1
    /\ layers >= 3
    /\ \A pos \in Rooms(Cur) : KeyOf(Cur, pos) = None

\* the regular snapshots: those made before finalize
Regular == {s \in Snapshots : s.layer <= layers}

\* C14 as stated: in every regular snapshot every room of a layer L >= 1
\* is grid-adjacent to at least one room of layer L - 1.
C14_NextToPreviousLayer ==
    \A s \in Regular :
        \A pos \in Rooms(s) :
            LayerOf(s, pos) >= 1 =>
                \E q \in RoomsOfLayer(s, LayerOf(s, pos) - 1) : Adjacent(pos, q)

\* C14 amended: in every regular snapshot every room of a layer L >= 1 is
\* a cell of the grid, placed once, and grid-adjacent to a room placed
\* before it that has layer L - 1 or L: a room of the previous layer step
\* or one placed earlier in the same advance.
C14_NextToPreviousOrSameLayer ==
    \A s \in Regular :
        \A i \in 2..Len(s.pos_list) :
            LET pos == s.pos_list[i]
            IN  /\ InGrid(pos)
                /\ \A j \in 1..(i - 1) : s.pos_list[j] # pos
                /\ \E j \in 1..(i - 1) :
                      /\ Adjacent(pos, s.pos_list[j])
                      /\ LayerOf(s, s.pos_list[j])
                            \in {LayerOf(s, pos) - 1, LayerOf(s, pos)}

\* C14 witness: a second-layer room with no first-layer neighbour, placed
\* next to a room of its own advance.
C14_Witness ==
    \E s \in Regular :
        \E pos \in RoomsOfLayer(s, 2) :
            \A q \in RoomsOfLayer(s, 1) : ~Adjacent(pos, q)

\* the states of the connections snapshot s records on the edge p - q
RecordedOn(s, p, q) ==
    {s.node_map.connections[i].state :
        i \in {j \in 1..Len(s.node_map.connections) :
                  LineEq(s.node_map.connections[j].line, Line(p, q))}}

\* C15: in every regular snapshot, every connection recorded on the edge
\* between two grid-adjacent rooms whose layers differ by two or more is a
\* Shortcut.
C15_OnlyShortcutsAcrossLayers ==
    \A s \in Regular :
        \A p \in Rooms(s) : \A q \in Rooms(s) :
            (Adjacent(p, q) /\ Abs(LayerOf(s, p) - LayerOf(s, q)) >= 2)
                => RecordedOn(s, p, q) \subseteq {"Shortcut"}

\* the state C16 gives the edge between adjacent rooms of layers a <= b
EdgeState(a, b) ==
    IF a = b THEN {"Open"}
    ELSE IF b = 1 THEN {"Open"}
    ELSE {"Locked"}

\* C16: in every regular snapshot get_connection returns, for the edge
\* between two grid-adjacent rooms of the same layer or of consecutive
\* layers, Open for one layer, Open for layers 0 and 1, Locked for layers
\* L - 1 and L with L >= 2; and the snapshot derived from a snapshot
\* returns for every edge between its rooms what the snapshot returned.
C16_EdgeStates ==
    /\ \A s \in Regular :
          \A p \in Rooms(s) : \A q \in Rooms(s) :
              (Adjacent(p, q) /\ LayerOf(s, p) <= LayerOf(s, q)
                              /\ LayerOf(s, q) - LayerOf(s, p) <= 1)
                  => LookedUp(s, p, q) = EdgeState(LayerOf(s, p), LayerOf(s, q))
    /\ \A i \in 1..(Len(state) - 1) :
          state[i + 1].layer <= layers =>
              \A p \in Rooms(state[i]) : \A q \in Rooms(state[i]) :
                  Adjacent(p, q) =>
                      /\ LookedUp(state[i], p, q) # None
                      /\ LookedUp(state[i + 1], p, q) = LookedUp(state[i], p, q)

\* C16 witness: a third-layer snapshot with an Open edge inside the third
\* layer, a Locked edge between the second and the third layer, and a
\* first-layer room next to a third-layer room.
C16_Witness ==
    /\ Cur.layer = 3
    /\ \E p \in RoomsOfLayer(Cur, 3) :
          /\ \E q \in RoomsOfLayer(Cur, 3) : Adjacent(p, q)
          /\ \E q \in RoomsOfLayer(Cur, 2) : Adjacent(p, q)
    /\ \E p \in RoomsOfLayer(Cur, 3) :
          \E q \in RoomsOfLayer(Cur, 1) : Adjacent(p, q)

\* C17: in every snapshot of a run for at least one layer, the returned
\* map included, a room that holds a key for layer K has a layer of at
\* least 1 and below K; the start room holds no key; and in a returned map
\* the key for the terminal layer is held by a room of the last regular
\* layer.
C17_NoForwardKeys ==
    layers >= 1 =>
        /\ \A s \in Snapshots :
              /\ \A pos \in Rooms(s) : \A K \in KeyOf(s, pos) :
                    LayerOf(s, pos) >= 1 /\ LayerOf(s, pos) < K
              /\ KeyOf(s, s.pos_list[1]) = None
        /\ Returned =>
              /\ KeyHolders(Cur, layers + 1) # {}
              /\ \A pos \in KeyHolders(Cur, layers + 1) : LayerOf(Cur, pos) = layers

\* C17 witness: a returned two-layer map with a key for the second layer
\* and the key for the terminal layer.
C17_Witness ==
    /\ Returned
    /\ layers = 2
    /\ KeyHolders(Cur, 2) # {}
    /\ KeyHolders(Cur, 3) # {}

\* C18: in every map returned for a layer count of at most PaletteSize,
\* the layer of every room, the terminal room included, and the target
\* layer of every key, the terminal key included, is an index of the
\* palette: below PaletteSize.
C18_LayersFitPalette ==
    (Returned /\ layers <= PaletteSize) =>
        \A pos \in Rooms(Cur) :
            /\ LayerOf(Cur, pos) < PaletteSize
            /\ \A K \in KeyOf(Cur, pos) : K < PaletteSize

\* the rooms placed by the layer step that made snapshot s
LastPlaced(s) == Range(Skip(s.pos_list, Len(s.pos_list) - s.amount))

\* C19: in every regular snapshot none of the rooms placed by its own
\* layer step holds a key, so generate_final_state finds a key-holder
\* whenever it runs: no run ends in the unwrap() of line 394.
C19_TerminalKeyHolderExists ==
    /\ \A s \in Regular :
          /\ LastPlaced(s) # {}
          /\ \A pos \in LastPlaced(s) : KeyOf(s, pos) = None
    /\ panic_line # 394

\* C19 witness: finalize has run on a three-layer snapshot reached after
\* a rollback.
C19_Witness ==
    /\ Returned
    /\ layers = 3
    /\ retries_left < RETRIES

\* C20: every snapshot of a layer >= 2, the returned map included, has for
\* every locked layer L (2 up to its own layer, at most `layers`) at least
\* one room that holds a key for L.
C20_EveryLockedLayerHasKey ==
    \A s \in Snapshots :
        \A L \in 2..layers :
            L <= s.layer => KeyHolders(s, L) # {}

\* C20 witness: a second-layer snapshot with more Locked edges into the
\* second layer than keys for it.
C20_Witness ==
    /\ Cur.layer = 2
    /\ Cardinality(KeyHolders(Cur, 2)) < Cardinality(LockedEdgesInto(Cur, 2))

====
